---- MODULE Spec2Model ----
(***************************************************************************)
(* Model of example/simple/src/volume.c: the file-backed example volume    *)
(* type registered with OCF.  Two backing files ("cache" and "core") are   *)
(* reached through two process-wide descriptors, cache_fd and core_fd.     *)
(* The state is the file system, the process' descriptor table, the        *)
(* globals of volume.c and the per-volume private data; the most recent    *)
(* call, with the request it handled, is kept in last.                     *)
(***************************************************************************)
EXTENDS Integers, Sequences, FiniteSets, TLC

\* ------------------------------------------------------------------ bounds
\* VOL_SIZE is 200 MiB in the source (volume.c:13); the model scales the
\* device down to a few bytes.
VOL_SIZE == 2
\* Highest descriptor number the process may hold (RLIMIT_NOFILE - 1).
\* Descriptors 0, 1, 2 are the standard streams.
MaxFd == 4

\* ------------------------------------------------------------- vocabulary
\* Volume instances, named by their uuid string.  A run constructs one of
\* these sets of instances: a cache with a core, or two cores.
Vols == {"cache", "core1", "core2"}
VolSets == {{"cache", "core1"}, {"core1", "core2"}}
\* The run's environment: healthy, or the directory refuses open(2) (EACCES),
\* or the file cannot be extended (EFBIG, quota), or the medium fails every
\* positioned transfer (EIO).
Envs == {"healthy", "no_open", "no_extend", "no_io"}
Paths == {"cache", "core"}
Fds == 3..MaxFd
Bytes == {0, 1}
\* Request lengths (io->bytes) the callers use.
Lengths == {1, 2}
\* Content of a freshly allocated read buffer: a value no file ever holds.
Poison == CHOOSE b \in 0..255 : b \notin Bytes
UNSET == "unset"
NoWrite == [vol |-> "none"]
OCF_READ == "read"
OCF_WRITE == "write"

VARIABLES
    files,       \* path -> [exists, content]: the two backing files
    fdtab,       \* descriptor -> "free" or the path it is open on
    cache_fd,    \* volume.c:19
    core_fd,     \* volume.c:18
    need_reload, \* volume.c:204
    name,        \* volume -> myvolume->name
    vstate,      \* volume -> UNPROVISIONED / OPEN / CLOSED, as the caller sees it
    env,         \* what the operating system refuses in this run, if anything
    alive,       \* FALSE once the process has crashed
    last,        \* record of the most recent call and what it did
    wr,          \* history of WRITEs, kept by TrackWrite or TrackStore
    hist         \* history of need_reload_cache: start state, first/last result

vars == <<files, fdtab, cache_fd, core_fd, need_reload, name, vstate, env,
          alive, last, wr, hist>>

\* The instances constructed in this run.
Insts == DOMAIN vstate

\* ---------------------------------------------------------------- helpers
Min(a, b) == IF a < b THEN a ELSE b
Max(a, b) == IF a > b THEN a ELSE b
Zeros(n) == [i \in 1..n |-> 0]
Slice(s, off, n) == [i \in 1..n |-> s[off + i]]
NoFile == [exists |-> FALSE, content |-> <<>>]

\* strcmp(myvolume->name, "cache") == 0 selects the cache branch.
IsCacheName(nm) == nm = "cache"
PathOfName(nm) == IF IsCacheName(nm) THEN "cache" ELSE "core"
FdOfName(nm) == IF IsCacheName(nm) THEN cache_fd ELSE core_fd

\* A descriptor number the kernel accepts for positioned I/O on a file.
FdOpen(fd) == fd \in Fds /\ fdtab[fd] # "free"
FreeFds == {fd \in Fds : fdtab[fd] = "free"}
LowestFree == CHOOSE fd \in FreeFds : \A g \in FreeFds : fd <= g

\* access(path, F_OK) == 0
access(path) == files[path].exists

\* Flags volume_open passes to open(2), by the result of access().
OpenFlagsAlwaysTrunc(existed) == {"O_RDWR", "O_CREAT", "O_TRUNC"}
OpenFlags(existed) ==
    IF existed THEN {"O_RDWR"} ELSE {"O_RDWR", "O_CREAT", "O_TRUNC"}

\* open(2): the file after a successful open with these flags.
SysOpenFile(f, flags) ==
    IF f.exists
    THEN IF "O_TRUNC" \in flags THEN [f EXCEPT !.content = <<>>] ELSE f
    ELSE [exists |-> TRUE, content |-> <<>>]
\* open(2) can succeed: the file is there or is created, and a descriptor is free.
SysOpenOk(f, flags) == (f.exists \/ "O_CREAT" \in flags) /\ FreeFds # {}

\* ftruncate(2): the file cut or zero-extended to len bytes.
SysFtruncate(f, len) ==
    [f EXCEPT !.content =
        [i \in 1..len |-> IF i <= Len(f.content) THEN f.content[i] ELSE 0]]

\* pwrite(2): data stored at addr, the gap up to addr zero-filled.
SysPwrite(f, data, addr) ==
    [f EXCEPT !.content =
        [i \in 1..Max(Len(f.content), addr + Len(data)) |->
            IF i > addr /\ i <= addr + Len(data) THEN data[i - addr]
            ELSE IF i <= Len(f.content) THEN f.content[i] ELSE 0]]

\* pread(2): the bytes of [addr, addr+n) that lie inside the file.
SysPread(f, n, addr) ==
    Slice(f.content, addr, Max(0, Min(n, Len(f.content) - addr)))

\* buf with got stored at positions off+1 .. off+Len(got)
Store(buf, off, got) ==
    [i \in 1..Len(buf) |->
        IF i > off /\ i <= off + Len(got) THEN got[i - off] ELSE buf[i]]

\* Return value of volume_open (volume.c:50): 0, whatever open/ftruncate did.
volume_open_ret(fd, sized) == 0

TypeOK ==
    /\ files \in [Paths -> [exists : BOOLEAN, content : Seq(Bytes)]]
    /\ fdtab \in [Fds -> {"free"} \cup Paths]
    /\ cache_fd \in {-1, 0} \cup Fds
    /\ core_fd \in {-1, 0} \cup Fds
    /\ need_reload \in {-1, 0, 1}
    /\ Insts \in VolSets \cup {Vols}
    /\ name \in [Insts -> Vols \cup {UNSET}]
    /\ vstate \in [Insts -> {"UNPROVISIONED", "OPEN", "CLOSED"}]
    /\ env \in Envs
    /\ alive \in BOOLEAN

\* ------------------------------------------------------------------- Init
\* Process start: a fresh directory, or the backing files a prior run left
\* (of full size, with content from olds), in one of the environments envs.
\* hist.start remembers whether the cache file was there when track is set;
\* the specifications that do not follow need_reload_cache leave it out.
InitOn(track, olds, envs, sets) ==
    /\ \E c \in BOOLEAN, old \in olds :
        /\ files = [p \in Paths |->
              IF c THEN [exists |-> TRUE, content |-> old] ELSE NoFile]
        /\ hist = [start |-> IF track THEN c ELSE FALSE, first |-> -1,
                   last |-> -1, probed |-> FALSE, reprobed |-> FALSE]
    /\ fdtab = [fd \in Fds |-> "free"]
    /\ cache_fd = 0
    /\ core_fd = 0
    /\ need_reload = -1
    /\ \E V \in sets :
        /\ name = [v \in V |-> UNSET]
        /\ vstate = [v \in V |-> "UNPROVISIONED"]
    /\ env \in envs
    /\ alive = TRUE
    /\ last = [op |-> "none"]
    /\ wr = NoWrite

InitWith(track, olds, envs) == InitOn(track, olds, envs, VolSets)

\* Requests fill the files themselves, so their runs start from zeroed files.
Init == InitWith(FALSE, {Zeros(VOL_SIZE)}, Envs \ {"no_extend"})
\* The lifecycle runs start from any prior content, in any environment.
InitLife == InitWith(TRUE, [1..VOL_SIZE -> Bytes], Envs)
\* Zeroed or absent files in a healthy environment.
InitStore == InitWith(FALSE, {Zeros(VOL_SIZE)}, {"healthy"})
\* A cache with two cores, in a healthy environment.
InitTrio == InitOn(FALSE, {Zeros(VOL_SIZE)}, {"healthy"}, {Vols})

\* ------------------------------------------------------------ volume_open
volume_open(v) ==
    LET nm      == v
        path    == PathOfName(nm)
        existed == access(path)
        flags   == OpenFlags(existed)
        ok      == env # "no_open" /\ SysOpenOk(files[path], flags)
        fd      == IF ok THEN LowestFree ELSE -1
        opened  == IF ok THEN SysOpenFile(files[path], flags) ELSE files[path]
        tOk     == ok /\ env # "no_extend" /\ ~existed
        f2      == IF tOk THEN SysFtruncate(opened, VOL_SIZE) ELSE opened
        sized   == ok /\ (existed \/ tOk)
        ret     == volume_open_ret(fd, sized)
    IN  /\ alive
        /\ vstate[v] # "OPEN"
        /\ name' = [name EXCEPT ![v] = nm]
        /\ files' = [files EXCEPT ![path] = f2]
        /\ fdtab' = IF ok THEN [fdtab EXCEPT ![fd] = path] ELSE fdtab
        /\ IF IsCacheName(nm)
           THEN cache_fd' = fd /\ UNCHANGED core_fd
           ELSE core_fd' = fd /\ UNCHANGED cache_fd
        /\ vstate' = [vstate EXCEPT ![v] = IF ret = 0 THEN "OPEN" ELSE @]
        /\ last' = [op |-> "open", vol |-> v, existed |-> existed, fd |-> fd,
                    sized |-> sized, ret |-> ret]
        /\ UNCHANGED <<need_reload, env, alive, hist>>

\* ----------------------------------------------------------- volume_close
volume_close(v) ==
    LET fd == FdOfName(name[v])
    IN  /\ alive
        /\ vstate[v] = "OPEN"
        /\ fdtab' = IF FdOpen(fd) THEN [fdtab EXCEPT ![fd] = "free"] ELSE fdtab
        /\ vstate' = [vstate EXCEPT ![v] = "CLOSED"]
        /\ last' = [op |-> "close", vol |-> v]
        /\ UNCHANGED <<files, cache_fd, core_fd, need_reload, name, env, alive,
                       hist>>

\* ------------------------------------------ myvolume_io_set_data/get_data
myvolume_io_set_data(priv, data, offset) ==
    [priv EXCEPT !.data = data, !.offset = offset]
myvolume_io_get_data(priv) == priv.data
\* A request's private area before set_data.
NewIoPriv == [data |-> [ptr |-> <<>>, offset |-> 0], offset |-> 0]

\* Buffers a caller attaches: a payload to write (the bytes taken depend on
\* where the transfer starts), or a fresh read buffer.
WriteBuffer == <<0, 1>>
ReadBuffer == <<Poison, Poison>>
BufferFor(dir) == IF dir = OCF_WRITE THEN WriteBuffer ELSE ReadBuffer
\* Offsets into such a buffer.
Offsets == {0, 1}

\* ------------------------------------------------------- volume_submit_io
\* Where in the buffer the transfer starts (volume.c:83,85,89,91).
BufferOffset(priv) == myvolume_io_get_data(priv).offset

\* What the handler does, in order, given the outcome of the transfer.
submit_io_steps_early_return(xferOk) ==
    IF xferOk THEN <<"transfer", "end">> ELSE <<"transfer">>
submit_io_steps(xferOk) == <<"transfer", "end">>
\* Status handed to io->end (volume.c:99).
io_end_status(xferOk) == 0

\* The caller builds a request, binds buffer buf (whose own base offset is
\* dataOff) at offset off with set_data, and submits it.  nm is the name strcmp
\* sees.
volume_submit_io(v, nm, dir, addr, bytes, buf, dataOff, off) ==
    LET priv   == myvolume_io_set_data(NewIoPriv,
                      [ptr |-> buf, offset |-> dataOff], off)
        data   == myvolume_io_get_data(priv)
        start  == BufferOffset(priv)
        fd     == FdOfName(nm)
        xferOk == env # "no_io" /\ FdOpen(fd)
        steps  == submit_io_steps(xferOk)
        moved  == xferOk /\ \E i \in 1..Len(steps) : steps[i] = "transfer"
        path   == fdtab[fd]
        after  == IF moved /\ dir = OCF_READ
                  THEN Store(data.ptr, start, SysPread(files[path], bytes, addr))
                  ELSE data.ptr
    IN  /\ alive
        /\ start + bytes <= Len(data.ptr)
        /\ priv.offset + bytes <= Len(data.ptr)
        /\ IF moved /\ dir = OCF_WRITE
           THEN files' = [files EXCEPT ![path] =
                            SysPwrite(@, Slice(data.ptr, start, bytes), addr)]
           ELSE UNCHANGED files
        /\ last' = [op |-> "io", vol |-> v, dir |-> dir, addr |-> addr,
                    bytes |-> bytes, priv |-> priv, buf |-> after,
                    xfer |-> xferOk, log |-> steps,
                    status |-> io_end_status(xferOk)]
        /\ UNCHANGED <<fdtab, cache_fd, core_fd, need_reload, name, vstate,
                       env, alive, hist>>

\* A request is inside the device.
InRange(addr, bytes) == addr + bytes <= VOL_SIZE

\* Submission to a volume that has been opened at least once.
SubmitIo ==
    \E v \in Insts, dir \in {OCF_READ, OCF_WRITE}, addr \in 0..(VOL_SIZE - 1),
       bytes \in Lengths, dataOff \in Offsets, off \in Offsets :
        /\ name[v] # UNSET
        /\ InRange(addr, bytes)
        /\ volume_submit_io(v, name[v], dir, addr, bytes, BufferFor(dir), dataOff, off)

\* Submission, to an opened volume, of a request that ends past the end of
\* the device; volume_submit_io has no check of addr or bytes.
SubmitIoBeyond ==
    \E v \in Insts, dir \in {OCF_READ, OCF_WRITE}, addr \in 0..(VOL_SIZE - 1),
       bytes \in Lengths :
        /\ name[v] # UNSET
        /\ ~InRange(addr, bytes)
        /\ volume_submit_io(v, name[v], dir, addr, bytes, BufferFor(dir), 0, 0)

\* Submission to a volume that was never opened: myvolume->name was never
\* assigned, so strcmp reads an indeterminate pointer.  Either branch may be
\* taken, or the process faults (Crash).
SubmitIoUnopened ==
    \E v \in Insts, nm \in {"cache", "core1"}, dir \in {OCF_READ, OCF_WRITE},
       addr \in 0..(VOL_SIZE - 1), bytes \in Lengths :
        /\ name[v] = UNSET
        /\ InRange(addr, bytes)
        /\ volume_submit_io(v, nm, dir, addr, bytes, BufferFor(dir), 0, 0)

Crash ==
    /\ alive
    /\ \E v \in Insts : name[v] = UNSET
    /\ alive' = FALSE
    /\ last' = [op |-> "crash"]
    /\ UNCHANGED <<files, fdtab, cache_fd, core_fd, need_reload, name, vstate,
                   env, hist>>

\* ---------------------------------- volume_submit_flush / submit_discard
submit_flush_steps == <<"end">>
submit_discard_steps == <<"end">>

volume_submit_flush(v) ==
    /\ alive
    /\ last' = [op |-> "flush", vol |-> v, log |-> submit_flush_steps, status |-> 0]
    /\ UNCHANGED <<files, fdtab, cache_fd, core_fd, need_reload, name, vstate,
                   env, alive, hist>>

\* A discard that drops the data, as a real device may.
volume_submit_discard_zeroing(v) ==
    /\ alive
    /\ name[v] # UNSET
    /\ files' = [files EXCEPT ![PathOfName(name[v])].content = Zeros(Len(@))]
    /\ last' = [op |-> "discard", vol |-> v, log |-> submit_discard_steps,
                status |-> 0]
    /\ UNCHANGED <<fdtab, cache_fd, core_fd, need_reload, name, vstate,
                   env, alive, hist>>

volume_submit_discard(v) ==
    /\ alive
    /\ last' = [op |-> "discard", vol |-> v, log |-> submit_discard_steps,
                status |-> 0]
    /\ UNCHANGED <<files, fdtab, cache_fd, core_fd, need_reload, name, vstate,
                   env, alive, hist>>

SubmitFlush == \E v \in Insts : volume_submit_flush(v)
SubmitDiscard == \E v \in Insts : volume_submit_discard(v)

\* ------------------------------- volume_get_max_io_size / get_length
\* A length taken from the backing file, as fstat(2) would report it.
volume_get_length_ret_file_size(v) == Len(files[PathOfName(v)].content)
\* Return values (volume.c:123, volume.c:131): constants of the source.
volume_get_length_ret(v) == VOL_SIZE
volume_get_max_io_size_ret(v) == 128 * 1024

volume_get_length(v) ==
    /\ alive
    /\ last' = [op |-> "get_length", vol |-> v, ret |-> volume_get_length_ret(v)]
    /\ UNCHANGED <<files, fdtab, cache_fd, core_fd, need_reload, name, vstate,
                   env, alive, hist>>

volume_get_max_io_size(v) ==
    /\ alive
    /\ last' = [op |-> "get_max_io_size", vol |-> v,
                ret |-> volume_get_max_io_size_ret(v)]
    /\ UNCHANGED <<files, fdtab, cache_fd, core_fd, need_reload, name, vstate,
                   env, alive, hist>>

GetLength == \E v \in Insts : volume_get_length(v)
GetMaxIoSize == \E v \in Insts : volume_get_max_io_size(v)

\* ------------------------------------------------------ need_reload_cache
\* New value of the static need_reload after a call (volume.c:206-213).
need_reload_value_no_memo(nr, exists) == IF exists THEN 1 ELSE 0
need_reload_value(nr, exists) ==
    IF nr # -1 THEN nr ELSE IF exists THEN 1 ELSE 0
\* Whether the call runs access() on the cache path.
need_reload_probes(nr) == nr = -1

need_reload_cache ==
    LET nr == need_reload_value(need_reload, access("cache"))
    IN  /\ alive
        /\ need_reload' = nr
        /\ hist' = [hist EXCEPT
                      !.first = IF @ = -1 THEN nr ELSE @,
                      !.last = nr,
                      !.probed = @ \/ need_reload_probes(need_reload),
                      !.reprobed = @ \/ (hist.probed /\ need_reload_probes(need_reload))]
        /\ last' = [op |-> "need_reload", ret |-> nr # 0]
        /\ UNCHANGED <<files, fdtab, cache_fd, core_fd, name, vstate, env, alive>>

\* ------------------------------------------------------------ environment
\* Someone removes a backing file while no descriptor is open on it.
Unlink ==
    \E p \in Paths :
        /\ alive
        /\ files[p].exists
        /\ \A fd \in Fds : fdtab[fd] # p
        /\ files' = [files EXCEPT ![p] = NoFile]
        /\ last' = [op |-> "unlink", path |-> p]
        /\ UNCHANGED <<fdtab, cache_fd, core_fd, need_reload, name, vstate,
                       env, alive, hist>>

Open == \E v \in Insts : volume_open(v)
Close == \E v \in Insts : volume_close(v)

\* ------------------------------------------------- round-trip bookkeeping
\* wr follows the step just taken (recorded in last'): it remembers the latest
\* WRITE submitted to an OPEN volume with the buffer bound where the buffer's
\* own offset points, and whether that volume has since been closed (phase 1)
\* and opened again (phase 2).  Any other write, or the removal of the file,
\* forgets it.
TrackWrite ==
    wr' = CASE last'.op = "io" /\ last'.dir = OCF_WRITE ->
                 IF vstate[last'.vol] = "OPEN"
                    /\ last'.priv.offset = last'.priv.data.offset
                 THEN [vol |-> last'.vol, addr |-> last'.addr,
                       data |-> Slice(last'.priv.data.ptr, last'.priv.offset,
                                      last'.bytes),
                       phase |-> 0]
                 ELSE NoWrite
            [] last'.op = "close" /\ last'.vol = wr.vol -> [wr EXCEPT !.phase = 1]
            [] last'.op = "open" /\ last'.vol = wr.vol ->
                 IF wr.phase = 1 /\ last'.ret = 0 THEN [wr EXCEPT !.phase = 2] ELSE wr
            [] last'.op = "unlink" /\ wr.vol # "none" ->
                 IF PathOfName(wr.vol) = last'.path THEN NoWrite ELSE wr
            [] OTHER -> wr

\* ------------------------------------------------------------------- Next
\* The volume operations: lifecycle and requests.
Next ==
    \/ Open /\ UNCHANGED wr
    \/ Close /\ UNCHANGED wr
    \/ SubmitIo /\ UNCHANGED wr
    \/ SubmitIoUnopened /\ UNCHANGED wr
    \/ Crash /\ UNCHANGED wr
    \/ SubmitFlush /\ UNCHANGED wr
    \/ SubmitDiscard /\ UNCHANGED wr

Spec == Init /\ [][Next]_vars

\* The same program with the round-trip bookkeeping switched on.
NextRT ==
    \/ Open /\ TrackWrite
    \/ Close /\ TrackWrite
    \/ SubmitIo /\ TrackWrite
    \/ SubmitIoUnopened /\ TrackWrite
    \/ Crash /\ TrackWrite
    \/ SubmitFlush /\ TrackWrite
    \/ SubmitDiscard /\ TrackWrite

SpecRT == Init /\ [][NextRT]_vars

\* The lifecycle and the queries: the startup query among the operations that
\* create or remove the file it probes, and the two size queries.  Requests
\* never change whether a file exists.
NextLife ==
    \/ Open /\ UNCHANGED wr
    \/ Close /\ UNCHANGED wr
    \/ need_reload_cache /\ UNCHANGED wr
    \/ Unlink /\ UNCHANGED wr
    \/ GetLength /\ UNCHANGED wr
    \/ GetMaxIoSize /\ UNCHANGED wr

SpecLife == InitLife /\ [][NextLife]_vars

\* The lifecycle with the two requests that move no data, over files of any
\* prior content.
NextFlush ==
    \/ Open /\ UNCHANGED wr
    \/ Close /\ UNCHANGED wr
    \/ SubmitFlush /\ UNCHANGED wr
    \/ SubmitDiscard /\ UNCHANGED wr

SpecFlush == InitLife /\ [][NextFlush]_vars

\* ------------------------------------------------- byte-store bookkeeping
\* Here wr holds the byte store the WRITEs so far describe, per backing file:
\* zeros at first, each in-range WRITE to an OPEN volume (buffer bound where
\* its own offset points) laid over it.  A WRITE of any other kind ends the
\* bookkeeping (Void).
Void == [vol |-> "void"]
IdealOf(w) == IF w = NoWrite THEN [p \in Paths |-> Zeros(VOL_SIZE)] ELSE w.ideal
TrackStore ==
    wr' = IF wr # Void /\ last'.op = "io" /\ last'.dir = OCF_WRITE
          THEN IF vstate[last'.vol] = "OPEN"
                  /\ last'.priv.offset = last'.priv.data.offset
               THEN [vol |-> "store",
                     ideal |-> [IdealOf(wr) EXCEPT ![PathOfName(last'.vol)] =
                                 Store(@, last'.addr,
                                       Slice(last'.priv.data.ptr,
                                             last'.priv.offset, last'.bytes))]]
               ELSE Void
          ELSE wr

NextStore ==
    \/ Open /\ TrackStore
    \/ Close /\ TrackStore
    \/ SubmitIo /\ TrackStore

SpecStore == InitStore /\ [][NextStore]_vars

\* Requests of any range.
NextCap ==
    \/ Open /\ UNCHANGED wr
    \/ Close /\ UNCHANGED wr
    \/ SubmitIo /\ UNCHANGED wr
    \/ SubmitIoBeyond /\ UNCHANGED wr

SpecCap == InitStore /\ [][NextCap]_vars

\* The cache and both cores constructed, and the requests of opened volumes.
NextTrio ==
    \/ Open /\ UNCHANGED wr
    \/ Close /\ UNCHANGED wr
    \/ SubmitIo /\ UNCHANGED wr

SpecTrio == InitTrio /\ [][NextTrio]_vars

\* ================================================================= claims
\* The file a request on v reaches: the one its descriptor is open on.
Reached(v) == fdtab[FdOfName(name[v])]
\* Number of times io->end ran for the last request.
Ends == Cardinality({i \in 1..Len(last.log) : last.log[i] = "end"})
\* The last call was a READ of exactly the range of the remembered WRITE, on
\* the same volume, still OPEN, with the buffer bound where its own offset points.
ReadsBack ==
    /\ last.op = "io"
    /\ last.dir = OCF_READ
    /\ wr # NoWrite
    /\ wr.vol = last.vol
    /\ wr.addr = last.addr
    /\ Len(wr.data) = last.bytes
    /\ last.priv.offset = last.priv.data.offset
    /\ vstate[last.vol] = "OPEN"

\* C1 (as claimed): in a healthy environment, a READ of [A, A+N) on an OPEN
\* volume that follows a WRITE of N bytes at A on that volume, with no other
\* write in between and the volume open throughout, leaves in the read buffer
\* exactly the bytes that were written.
C1_RoundTrip ==
    (env = "healthy" /\ ReadsBack /\ wr.phase = 0)
        => Slice(last.buf, last.priv.offset, last.bytes) = wr.data

\* C2 (as claimed): in a healthy environment, bytes written to an OPEN volume
\* are read back from the same range after the volume has been closed and
\* opened again.
C2_Persistence ==
    (env = "healthy" /\ ReadsBack /\ wr.phase = 2)
        => Slice(last.buf, last.priv.offset, last.bytes) = wr.data

\* C3: volume_open changes no file but the one its identifier maps to; when
\* that file exists it keeps its size and every byte; when it does not exist
\* and open(2) and ftruncate(2) succeed it becomes VOL_SIZE zero bytes; when
\* open(2) fails nothing is created.
C3_IdempotentProvisioning ==
    [][last'.op = "open" =>
        LET p == PathOfName(last'.vol)
        IN  /\ \A q \in Paths \ {p} : files'[q] = files[q]
            /\ files[p].exists => files'[p] = files[p]
            /\ (~files[p].exists /\ last'.sized) =>
                   files'[p] = [exists |-> TRUE, content |-> Zeros(VOL_SIZE)]
            /\ (~files[p].exists /\ last'.fd = -1) => files'[p] = files[p]]_vars

\* C3 witness: an open found its file in place, holding bytes other than the
\* zero fill, and attached to it.
C3_Witness ==
    /\ last.op = "open"
    /\ last.existed
    /\ last.fd # -1
    /\ files[PathOfName(last.vol)].content # Zeros(VOL_SIZE)
    /\ Len(files[PathOfName(last.vol)].content) = VOL_SIZE

\* C4: every request handled by submit_io, submit_flush or submit_discard has
\* its completion callback run exactly once, and for a read/write the callback
\* runs after the transfer step, whether the transfer succeeded or failed.
C4_CompletedExactlyOnce ==
    last.op \in {"io", "flush", "discard"} =>
        /\ Ends = 1
        /\ last.op = "io" =>
             \E i, j \in 1..Len(last.log) :
                 i < j /\ last.log[i] = "transfer" /\ last.log[j] = "end"

\* C4 witness: a read/write on an OPEN volume whose transfer failed has been
\* completed.
C4_Witness ==
    last.op = "io" /\ vstate[last.vol] = "OPEN" /\ ~last.xfer /\ Ends = 1

\* C5: every call of need_reload_cache returns what the first call returned,
\* and no call after the first probes the file again.
C5_NeedReloadStable ==
    /\ hist.first # -1 => hist.last = hist.first
    /\ ~hist.reprobed

\* C5 witness: the first call found no cache file, the file has been created
\* since, and need_reload_cache has just been called again.
C5_Witness ==
    /\ last.op = "need_reload"
    /\ hist.first = 0
    /\ files["cache"].exists

\* C6 (as claimed): in a process that started without a cache backing file, in
\* a healthy environment, need_reload_cache never returns true.
C6_FalseOnFreshStart == (env = "healthy" /\ ~hist.start) => hist.last # 1

\* C7 (as claimed): volume_open returns 0 only when open(2) gave a descriptor
\* and the file has its full size, and then the volume is OPEN on a valid
\* descriptor; otherwise it returns an error.
C7_OpenReportsFailure ==
    last.op = "open" =>
        /\ last.ret = 0 <=> (last.fd # -1 /\ last.sized)
        /\ last.ret = 0 =>
             vstate[last.vol] = "OPEN" /\ FdOpen(FdOfName(name[last.vol]))

\* C8 (as claimed): the status given to the completion callback of a
\* read/write on an OPEN volume is 0 exactly when the positioned transfer
\* succeeded.
C8_StatusReflectsTransfer ==
    (last.op = "io" /\ vstate[last.vol] = "OPEN") =>
        (last.status = 0 <=> last.xfer)

\* C9 (as claimed): a transfer that took place used the buffer from the
\* offset bound by set_data: a READ left the file bytes [addr, addr+bytes)
\* there and nothing elsewhere, a WRITE stored the buffer bytes found there.
C9_BoundOffsetHonoured ==
    (last.op = "io" /\ last.xfer /\ vstate[last.vol] = "OPEN") =>
        LET f == files[Reached(last.vol)]
            buf == last.priv.data.ptr
        IN  IF last.dir = OCF_READ
            THEN last.buf = Store(buf, last.priv.offset,
                                  SysPread(f, last.bytes, last.addr))
            ELSE Slice(f.content, last.addr, last.bytes)
                     = Slice(buf, last.priv.offset, last.bytes)

\* The descriptor of v is open on the file v's identifier maps to.  A volume
\* that was never opened has no descriptor yet.
HandleValid(v) ==
    /\ name[v] # UNSET
    /\ FdOpen(FdOfName(name[v]))
    /\ fdtab[FdOfName(name[v])] = PathOfName(v)

\* C10 (as claimed): in a healthy environment, a volume's descriptor is open
\* on its backing file exactly when the volume is OPEN.
C10_HandleValidIffOpen ==
    env = "healthy" => \A v \in Insts : HandleValid(v) <=> vstate[v] = "OPEN"

\* The descriptor number requests on v go through.
HandleOf(v) == FdOfName(name[v])

\* C11 (as claimed): in a healthy environment no two distinct OPEN instances
\* use the same descriptor, and a close of one instance leaves the descriptor
\* of every other OPEN instance open on that instance's file.
C11_ExclusiveHandles ==
    [][env = "healthy" =>
        /\ \A v, w \in Insts :
             (v # w /\ vstate'[v] = "OPEN" /\ vstate'[w] = "OPEN")
                 => HandleOf(v)' # HandleOf(w)'
        /\ last'.op = "close" =>
             \A w \in Insts \ {last'.vol} :
                 (vstate[w] = "OPEN" /\ HandleValid(w)) => HandleValid(w)']_vars

\* C12: a flush or a discard is completed once with status 0 and leaves both
\* backing files (content and size), the descriptor table, both descriptor
\* globals, and every volume's name and state as they were.
C12_FlushDiscardNoEffect ==
    [][last'.op \in {"flush", "discard"} =>
        /\ last'.status = 0
        /\ last'.log = <<"end">>
        /\ files' = files
        /\ fdtab' = fdtab
        /\ cache_fd' = cache_fd
        /\ core_fd' = core_fd
        /\ name' = name
        /\ vstate' = vstate]_vars

\* C12 witness: a discard has completed on an OPEN volume whose file holds
\* non-zero bytes.
C12_Witness ==
    /\ last.op = "discard"
    /\ vstate[last.vol] = "OPEN"
    /\ HandleValid(last.vol)
    /\ files[PathOfName(last.vol)].content # Zeros(VOL_SIZE)

\* C13: every call of get_length returns the one capacity VOL_SIZE and every
\* call of get_max_io_size returns 128 KiB, in any volume state, whether the
\* backing file was there before the open or not, whatever its present size;
\* neither call changes a file, a descriptor, a global or a volume.
C13_FixedCapacity ==
    [][last'.op \in {"get_length", "get_max_io_size"} =>
        /\ last'.op = "get_length" => last'.ret = VOL_SIZE
        /\ last'.op = "get_max_io_size" => last'.ret = 131072
        /\ files' = files
        /\ fdtab' = fdtab
        /\ cache_fd' = cache_fd
        /\ core_fd' = core_fd
        /\ need_reload' = need_reload
        /\ name' = name
        /\ vstate' = vstate]_vars

\* C13 witness: get_length has answered for an OPEN volume whose backing file
\* was created by this open and could not be brought to size.
C13_Witness ==
    /\ last.op = "get_length"
    /\ last.ret = VOL_SIZE
    /\ vstate[last.vol] = "OPEN"
    /\ ~hist.start
    /\ files[PathOfName(last.vol)].exists
    /\ Len(files[PathOfName(last.vol)].content) # VOL_SIZE

\* C14 (as claimed): a transfer for a request on an opened volume goes to the
\* backing file the volume's identifier maps to, and a WRITE on an OPEN volume
\* leaves the other backing file as it was.
C14_Routing ==
    [][(last'.op = "io" /\ name[last'.vol] # UNSET /\ vstate[last'.vol] = "OPEN") =>
        /\ last'.xfer => Reached(last'.vol) = PathOfName(last'.vol)
        /\ last'.dir = OCF_WRITE =>
             \A q \in Paths \ {PathOfName(last'.vol)} : files'[q] = files[q]]_vars

\* C15 (as claimed): in a healthy environment, after in-range WRITEs to OPEN
\* volumes, a READ on an OPEN volume returns for each byte the value of the
\* most recent WRITE covering it on that backing file, and zero (the value
\* before any write) for a byte no WRITE covered.
C15_LastWriterWins ==
    (/\ last.op = "io"
     /\ last.dir = OCF_READ
     /\ vstate[last.vol] = "OPEN"
     /\ last.priv.offset = last.priv.data.offset
     /\ wr # Void
     /\ wr # NoWrite)
        => Slice(last.buf, last.priv.offset, last.bytes)
               = Slice(wr.ideal[PathOfName(last.vol)], last.addr, last.bytes)

\* C16 (as claimed): a read/write submitted to a volume that is not OPEN,
\* whether never opened or closed, leaves both backing files as they were.
C16_NoEffectUnlessOpen ==
    [][(last'.op = "io" /\ vstate[last'.vol] # "OPEN") => files' = files]_vars

\* Descriptors the process holds on backing files.
OpenFds == {fd \in Fds : fdtab[fd] # "free"}
OpenVols == {v \in Insts : vstate[v] = "OPEN"}

\* C17 (as claimed): in a healthy environment the process holds exactly as
\* many descriptors on backing files as there are OPEN volumes: each open
\* adds one, each close releases the one its open obtained.
C17_NoDescriptorLeak ==
    env = "healthy" => Cardinality(OpenFds) = Cardinality(OpenVols)

\* C18 (as claimed): in a healthy environment the backing file of every
\* volume that has been opened has exactly the size get_length reports,
\* whatever reads and writes were submitted, in range or not.
C18_FileSizeIsCapacity ==
    env = "healthy" =>
        \A v \in Insts :
            name[v] # UNSET =>
                Len(files[PathOfName(v)].content) = volume_get_length_ret(v)
====
